---- MODULE Spec2Model ----
(***************************************************************************)
(* Model of the visurf-api-gateway dispatch core: the LoadBalancer class   *)
(* (strategies + per-worker circuit breaker, src/src/services/             *)
(* loadBalancer.js), the load-balanced render route and the worker         *)
(* management routes (src/unnamed/part_005).  The worker registry          *)
(* (../db/sqlite worker functions) is not part of the sources; it is       *)
(* modelled from the registry contract of the specification.               *)
(***************************************************************************)
EXTENDS Integers, Sequences, FiniteSets, TLC

(* ---------------- program constants ---------------- *)
Threshold == 5
Timeout == 60000
ServiceTypes == {"render", "parse", "combo"}
\* period and heartbeat timeout of the liveness sweep
SweepInterval == 10000
HeartbeatTimeout == 60000
\* retries of forwardRequest in LOAD_BALANCER.md
Retries == 3
KnownStrategies == {"round-robin", "least-connections", "weighted-round-robin", "response-time"}

(* ---------------- bounds of the model ---------------- *)
MaxWorkers == 2
MaxDispatch == 3
MaxFailures == 7
MaxTicks == 2
TickMs == 30000
MaxCandidates == 3
MaxWeight == 3
MaxPicks == 9
StackLimit == 6
NumRequests == 2
StepMs == 1
MaxSteps == 2
MaxLoad == 4
MaxSweeps == 8
MaxSweepDispatch == 2
MaxStatusWorkers == 1
MaxClassPicks == 2
MaxAccPicks == 2
MaxStatusSweeps == 7

WorkerIds == 1..(MaxWorkers + MaxCandidates)
Requests == 1..NumRequests
StrategyNames == KnownStrategies \cup {"fastest"}
RegisterTypes == {"render", "parse"}

VARIABLES now, workers, strategy, roundRobinIndex, currentWeights,
          circuitBreaker, reqs, sel, picks, started,
          failsSinceSuccess, failsSinceCleared, lastFailAt, forgiven

vars == <<now, workers, strategy, roundRobinIndex, currentWeights,
          circuitBreaker, reqs, sel, picks, started,
          failsSinceSuccess, failsSinceCleared, lastFailAt, forgiven>>

balancerVars == <<strategy, roundRobinIndex, currentWeights, circuitBreaker>>
historyVars == <<failsSinceSuccess, failsSinceCleared, lastFailAt, forgiven>>

Max(a, b) == IF a >= b THEN a ELSE b

(* ---------------- worker registry (contract of the specification) ------- *)
\* workers is the table in insertion order; a worker id is its position.
\* A removed row stays in the sequence with present = FALSE (ids are never
\* reused, as with uuidv4).
NewWorker(id, type, weight) ==
  [id |-> id, type |-> type, weight |-> weight, status |-> "online",
   conns |-> 0, total |-> 0, failed |-> 0, avg |-> 0,
   lastHb |-> now, present |-> TRUE]

IsPresent(id) == id \in 1..Len(workers) /\ workers[id].present

getWorkersByService(tbl, serviceType) ==
  SelectSeq(tbl, LAMBDA w : w.present /\ w.type = serviceType)

updateWorkerConnections(tbl, id, delta) ==
  [i \in 1..Len(tbl) |->
     IF i = id /\ tbl[i].present
       THEN [tbl[i] EXCEPT !.conns = Max(0, @ + delta)]
       ELSE tbl[i]]

updateWorkerStats(tbl, id, durationMs, success) ==
  [i \in 1..Len(tbl) |->
     IF i = id /\ tbl[i].present
       THEN [tbl[i] EXCEPT
               !.total = @ + 1,
               !.failed = IF success THEN @ ELSE @ + 1,
               !.avg = @ + ((durationMs - @) \div (tbl[i].total + 1))]
       ELSE tbl[i]]

(* ---------------- circuit breaker ---------------- *)
\* circuitBreaker is the Map in insertion order: a sequence of entries
\* [id, count, timestamp].
HasEntry(cb, id) == \E i \in 1..Len(cb) : cb[i].id = id
EntryOf(cb, id) == cb[CHOOSE i \in 1..Len(cb) : cb[i].id = id]
DeleteEntry(cb, id) == SelectSeq(cb, LAMBDA e : e.id # id)
CountOf(cb, id) == IF HasEntry(cb, id) THEN EntryOf(cb, id).count ELSE 0

\* recordFailure that keeps the timestamp of the first failure
recordFailure_KeepTimestamp(cb, id, t) ==
  IF HasEntry(cb, id)
    THEN [i \in 1..Len(cb) |->
            IF cb[i].id = id THEN [cb[i] EXCEPT !.count = @ + 1] ELSE cb[i]]
    ELSE Append(cb, [id |-> id, count |-> 1, timestamp |-> t])

recordFailure(cb, id, t) ==
  IF HasEntry(cb, id)
    THEN [i \in 1..Len(cb) |->
            IF cb[i].id = id
              THEN [cb[i] EXCEPT !.count = @ + 1, !.timestamp = t]
              ELSE cb[i]]
    ELSE Append(cb, [id |-> id, count |-> 1, timestamp |-> t])

\* recordSuccess that forgives one failure instead of all
recordSuccess_ForgiveOne(cb, id) ==
  [i \in 1..Len(cb) |->
     IF cb[i].id = id /\ cb[i].count > 0
       THEN [cb[i] EXCEPT !.count = @ - 1] ELSE cb[i]]

recordSuccess(cb, id) == DeleteEntry(cb, id)

\* isCircuitOpen that opens only above the threshold (> for >=)
isCircuitOpen_AboveThreshold(cb, id, t) ==
  IF ~HasEntry(cb, id) THEN [open |-> FALSE, cb |-> cb]
  ELSE IF EntryOf(cb, id).count > Threshold
    THEN IF t - EntryOf(cb, id).timestamp < Timeout
           THEN [open |-> TRUE, cb |-> cb]
           ELSE [open |-> FALSE, cb |-> DeleteEntry(cb, id)]
    ELSE [open |-> FALSE, cb |-> cb]

\* isCircuitOpen without the timeout check
isCircuitOpen_NoExpiry(cb, id, t) ==
  IF ~HasEntry(cb, id) THEN [open |-> FALSE, cb |-> cb]
  ELSE [open |-> EntryOf(cb, id).count >= Threshold, cb |-> cb]

\* isCircuitOpen that deletes any entry older than the timeout
isCircuitOpen_ExpireAny(cb, id, t) ==
  IF ~HasEntry(cb, id) THEN [open |-> FALSE, cb |-> cb]
  ELSE IF t - EntryOf(cb, id).timestamp >= Timeout
    THEN [open |-> FALSE, cb |-> DeleteEntry(cb, id)]
    ELSE [open |-> EntryOf(cb, id).count >= Threshold, cb |-> cb]

\* isCircuitOpen returns the answer and the map it leaves behind.
isCircuitOpen(cb, id, t) ==
  IF ~HasEntry(cb, id) THEN [open |-> FALSE, cb |-> cb]
  ELSE IF EntryOf(cb, id).count >= Threshold
    THEN IF t - EntryOf(cb, id).timestamp < Timeout
           THEN [open |-> TRUE, cb |-> cb]
           ELSE [open |-> FALSE, cb |-> DeleteEntry(cb, id)]
    ELSE [open |-> FALSE, cb |-> cb]

\* index of the entry resetOldestCircuit deletes: the first one, in Map
\* order, whose timestamp is strictly smaller than all earlier ones' minimum.
OldestIndex(cb) ==
  CHOOSE i \in 1..Len(cb) :
    /\ \A j \in 1..Len(cb) : cb[i].timestamp <= cb[j].timestamp
    /\ \A j \in 1..(i - 1) : cb[j].timestamp > cb[i].timestamp

\* resetOldestCircuit that leaves the oldest entry one failure below the
\* threshold instead of deleting it
resetOldestCircuit_HalfOpen(cb) ==
  IF Len(cb) = 0 THEN cb
  ELSE [i \in 1..Len(cb) |->
          IF i = OldestIndex(cb) THEN [cb[i] EXCEPT !.count = Threshold - 1]
          ELSE cb[i]]

\* resetOldestCircuit that finds no oldest key and deletes nothing
resetOldestCircuit_Keep(cb) == cb

resetOldestCircuit(cb) ==
  IF Len(cb) = 0 THEN cb
  ELSE DeleteEntry(cb, cb[OldestIndex(cb)].id)

(* ---------------- load balancer strategies ---------------- *)
NoWorker ==
  [id |-> 0, type |-> "none", weight |-> 0, status |-> "none",
   conns |-> 0, total |-> 0, failed |-> 0, avg |-> 0,
   lastHb |-> 0, present |-> FALSE]

\* workers.filter(w => !this.isCircuitOpen(w.id)), left to right; every
\* isCircuitOpen call may delete an expired entry.
RECURSIVE FilterAvailable(_, _, _, _)
FilterAvailable(ws, i, cb, t) ==
  IF i > Len(ws) THEN [avail |-> <<>>, cb |-> cb, expired |-> {}]
  ELSE LET r == isCircuitOpen(cb, ws[i].id, t)
           rest == FilterAvailable(ws, i + 1, r.cb, t)
       IN [avail |-> IF r.open THEN rest.avail ELSE <<ws[i]>> \o rest.avail,
           cb |-> rest.cb,
           expired |-> IF Len(r.cb) < Len(cb)
                         THEN rest.expired \cup {ws[i].id}
                         ELSE rest.expired]

\* roundRobin that does not advance the cursor
roundRobin_NoAdvance(ws, serviceType, rr) ==
  [worker |-> ws[(rr[serviceType] % Len(ws)) + 1], rr |-> rr]

roundRobin(ws, serviceType, rr) ==
  LET currentIndex == rr[serviceType]
  IN [worker |-> ws[(currentIndex % Len(ws)) + 1],
      rr |-> [rr EXCEPT ![serviceType] = currentIndex + 1]]

RECURSIVE ReduceLeast(_, _, _)
ReduceLeast(ws, i, min) ==
  IF i > Len(ws) THEN min
  ELSE ReduceLeast(ws, i + 1, IF ws[i].conns < min.conns THEN ws[i] ELSE min)

\* leastConnections that keeps the last of the candidates with the minimum
leastConnections_LastOfTies(ws) ==
  ws[CHOOSE i \in 1..Len(ws) :
       /\ \A j \in 1..Len(ws) : ws[j].conns >= ws[i].conns
       /\ \A j \in (i + 1)..Len(ws) : ws[j].conns > ws[i].conns]

leastConnections(ws) == ReduceLeast(ws, 2, ws[1])

\* avg_response_time || Infinity : 0 (no recorded data) counts as Infinity.
Infinity == -1
TimeOf(w) == IF w.avg = 0 THEN Infinity ELSE w.avg
Less(a, b) == a # Infinity /\ (b = Infinity \/ a < b)

RECURSIVE ReduceFastest(_, _, _)
ReduceFastest(ws, i, fastest) ==
  IF i > Len(ws) THEN fastest
  ELSE ReduceFastest(ws, i + 1,
         IF Less(TimeOf(ws[i]), TimeOf(fastest)) THEN ws[i] ELSE fastest)

responseTime(ws) == ReduceFastest(ws, 2, ws[1])

\* the for-loop of weightedRoundRobin; found = FALSE stands for
\* maxWeight = -Infinity.
RECURSIVE WrrScan(_, _, _, _, _, _, _)
WrrScan(ws, i, cw, totalWeight, found, maxWeight, selected) ==
  IF i > Len(ws)
    THEN [cw |-> cw, totalWeight |-> totalWeight, found |-> found,
          selected |-> selected]
  ELSE LET currentWeight == cw[ws[i].id] + ws[i].weight
           better == ~found \/ currentWeight > maxWeight
       IN WrrScan(ws, i + 1, [cw EXCEPT ![ws[i].id] = currentWeight],
                  totalWeight + ws[i].weight, TRUE,
                  IF better THEN currentWeight ELSE maxWeight,
                  IF better THEN ws[i] ELSE selected)

\* weightedRoundRobin that subtracts the winner's own weight, not the total
weightedRoundRobin_SubtractOwn(ws, cw) ==
  LET s == WrrScan(ws, 1, cw, 0, FALSE, 0, NoWorker)
  IN [worker |-> s.selected,
      cw |-> IF s.found
               THEN [s.cw EXCEPT ![s.selected.id] = @ - s.selected.weight]
               ELSE s.cw]

\* weightedRoundRobin that does not subtract the total weight
weightedRoundRobin_NoSubtract(ws, cw) ==
  LET s == WrrScan(ws, 1, cw, 0, FALSE, 0, NoWorker)
  IN [worker |-> s.selected, cw |-> s.cw]

weightedRoundRobin(ws, cw) ==
  LET s == WrrScan(ws, 1, cw, 0, FALSE, 0, NoWorker)
  IN [worker |-> s.selected,
      cw |-> IF s.found
               THEN [s.cw EXCEPT ![s.selected.id] = @ - s.totalWeight]
               ELSE s.cw]

\* a switch whose default branch returns the first candidate
ApplyStrategy_DefaultFirst(strat, ws, serviceType, rr, cw) ==
  CASE strat = "round-robin" ->
         LET r == roundRobin(ws, serviceType, rr)
         IN [worker |-> r.worker, rr |-> r.rr, cw |-> cw]
    [] strat = "least-connections" ->
         [worker |-> leastConnections(ws), rr |-> rr, cw |-> cw]
    [] strat = "weighted-round-robin" ->
         LET r == weightedRoundRobin(ws, cw)
         IN [worker |-> r.worker, rr |-> rr, cw |-> r.cw]
    [] strat = "response-time" ->
         [worker |-> responseTime(ws), rr |-> rr, cw |-> cw]
    [] OTHER ->
         [worker |-> ws[1], rr |-> rr, cw |-> cw]

\* the switch of selectWorker on this.strategy
ApplyStrategy(strat, ws, serviceType, rr, cw) ==
  CASE strat = "round-robin" ->
         LET r == roundRobin(ws, serviceType, rr)
         IN [worker |-> r.worker, rr |-> r.rr, cw |-> cw]
    [] strat = "least-connections" ->
         [worker |-> leastConnections(ws), rr |-> rr, cw |-> cw]
    [] strat = "weighted-round-robin" ->
         LET r == weightedRoundRobin(ws, cw)
         IN [worker |-> r.worker, rr |-> rr, cw |-> r.cw]
    [] strat = "response-time" ->
         [worker |-> responseTime(ws), rr |-> rr, cw |-> cw]
    [] OTHER ->
         LET r == weightedRoundRobin(ws, cw)
         IN [worker |-> r.worker, rr |-> rr, cw |-> r.cw]

\* a selectWorker that, given an empty list, deletes the oldest breaker
\* entry before it returns null
RECURSIVE selectWorker_ResetOnEmpty(_, _, _, _, _, _, _, _, _)
selectWorker_ResetOnEmpty(serviceType, tbl, cb, rr, cw, strat, t, resets, expired) ==
  LET ws == getWorkersByService(tbl, serviceType)
  IN IF Len(ws) = 0
       THEN [outcome |-> "null", worker |-> NoWorker,
             cb |-> resetOldestCircuit(cb), rr |-> rr,
             cw |-> cw, resets |-> resets, expired |-> expired]
     ELSE LET f == FilterAvailable(ws, 1, cb, t)
          IN IF Len(f.avail) = 0
               THEN IF Len(resets) >= StackLimit
                      THEN [outcome |-> "overflow", worker |-> NoWorker,
                            cb |-> f.cb, rr |-> rr, cw |-> cw,
                            resets |-> resets,
                            expired |-> expired \cup f.expired]
                    ELSE selectWorker_ResetOnEmpty(serviceType, tbl,
                           resetOldestCircuit(f.cb), rr, cw, strat, t,
                           IF Len(f.cb) = 0 THEN Append(resets, 0)
                             ELSE Append(resets, f.cb[OldestIndex(f.cb)].id),
                           expired \cup f.expired)
             ELSE LET r == ApplyStrategy(strat, f.avail, serviceType, rr, cw)
                  IN [outcome |-> "worker", worker |-> r.worker,
                      cb |-> f.cb, rr |-> r.rr, cw |-> r.cw,
                      resets |-> resets,
                      expired |-> expired \cup f.expired]

\* selectWorker(serviceType).  resets lists the keys deleted by
\* resetOldestCircuit, expired the ids whose entry isCircuitOpen deleted.
\* A recursion deeper than StackLimit ends in a RangeError ("overflow").
RECURSIVE selectWorker(_, _, _, _, _, _, _, _, _)
selectWorker(serviceType, tbl, cb, rr, cw, strat, t, resets, expired) ==
  LET ws == getWorkersByService(tbl, serviceType)
  IN IF Len(ws) = 0
       THEN [outcome |-> "null", worker |-> NoWorker, cb |-> cb, rr |-> rr,
             cw |-> cw, resets |-> resets, expired |-> expired]
     ELSE LET f == FilterAvailable(ws, 1, cb, t)
          IN IF Len(f.avail) = 0
               THEN IF Len(resets) >= StackLimit
                      THEN [outcome |-> "overflow", worker |-> NoWorker,
                            cb |-> f.cb, rr |-> rr, cw |-> cw,
                            resets |-> resets,
                            expired |-> expired \cup f.expired]
                    ELSE selectWorker(serviceType, tbl,
                           resetOldestCircuit(f.cb), rr, cw, strat, t,
                           IF Len(f.cb) = 0 THEN Append(resets, 0)
                             ELSE Append(resets, f.cb[OldestIndex(f.cb)].id),
                           expired \cup f.expired)
             ELSE LET r == ApplyStrategy(strat, f.avail, serviceType, rr, cw)
                  IN [outcome |-> "worker", worker |-> r.worker,
                      cb |-> f.cb, rr |-> r.rr, cw |-> r.cw,
                      resets |-> resets,
                      expired |-> expired \cup f.expired]

(* ---------------- initial state ---------------- *)
\* one render request: selects counts its selectWorker calls, forwards its
\* axios.post calls, incs/decs its updateWorkerConnections(+1/-1) calls,
\* billed whether updateUserStats ran for it.
IdleRequest ==
  [pc |-> "idle", worker |-> 0, selects |-> 0, forwards |-> 0, incs |-> 0,
   decs |-> 0, billed |-> FALSE, resp |-> "none", startedAt |-> 0]

NoSelection ==
  [serviceType |-> "none", outcome |-> "none", worker |-> NoWorker,
   resets |-> <<>>]

Init ==
  /\ now = 0
  /\ workers = <<>>
  /\ strategy = "weighted-round-robin"
  /\ roundRobinIndex = [t \in ServiceTypes |-> 0]
  /\ currentWeights = [id \in WorkerIds |-> 0]
  /\ circuitBreaker = <<>>
  /\ reqs = [r \in Requests |-> IdleRequest]
  /\ sel = NoSelection
  /\ picks = <<>>
  /\ started = 0
  /\ failsSinceSuccess = [id \in WorkerIds |-> 0]
  /\ failsSinceCleared = [id \in WorkerIds |-> 0]
  /\ lastFailAt = [id \in WorkerIds |-> -1]
  /\ forgiven = [id \in WorkerIds |-> 0]

(* ---------------- history of the breaker calls ---------------- *)
\* forgiven[w]: the failure count of the entry that the last recordSuccess(w)
\* deleted.
\* failsSinceSuccess[w]: recordFailure(w) calls since the last
\* recordSuccess(w) or expiry of w's entry; failsSinceCleared[w]: the same,
\* also restarted when resetOldestCircuit deletes w's entry.
ClearedBy(f, ids) == [id \in WorkerIds |-> IF id \in ids THEN 0 ELSE f[id]]
SeqRange(q) == {q[i] : i \in 1..Len(q)}

(* ---------------- time ---------------- *)
Tick ==
  /\ now' = now + TickMs
  /\ UNCHANGED <<workers, balancerVars, reqs, sel, picks, started, historyVars>>

\* ms milliseconds pass
Advance(ms) ==
  /\ now' = now + ms
  /\ UNCHANGED <<workers, balancerVars, reqs, sel, picks, started, historyVars>>

(* ---------------- worker management routes ---------------- *)
\* POST /register : weightInput 0 stands for a payload without weight.
Register(serviceType, weightInput) ==
  /\ serviceType \in ServiceTypes
  /\ workers' = Append(workers,
                  NewWorker(Len(workers) + 1, serviceType,
                            IF weightInput = 0 THEN 1 ELSE weightInput))
  /\ UNCHANGED <<now, balancerVars, reqs, sel, picks, started, historyVars>>

\* POST /heartbeat : statusInput "" stands for a payload without status,
\* connsInput -1 for a payload without currentConnections; a provided
\* currentConnections replaces the connection count of the registry.
Heartbeat(id, statusInput, connsInput) ==
  /\ IsPresent(id)
  /\ workers' = [workers EXCEPT
                   ![id].status = IF statusInput = "" THEN "online"
                                  ELSE statusInput,
                   ![id].conns = IF connsInput = -1 THEN @ ELSE connsInput,
                   ![id].lastHb = now]
  /\ UNCHANGED <<now, balancerVars, reqs, sel, picks, started, historyVars>>

\* POST /:id/offline
MarkOffline(id) ==
  /\ IsPresent(id)
  /\ workers' = [workers EXCEPT ![id].status = "offline"]
  /\ UNCHANGED <<now, balancerVars, reqs, sel, picks, started, historyVars>>

\* DELETE /:id
RemoveWorker(id) ==
  /\ IsPresent(id)
  /\ workers' = [workers EXCEPT ![id].present = FALSE]
  /\ UNCHANGED <<now, balancerVars, reqs, sel, picks, started, historyVars>>

(* ---------------- liveness sweep (contract of the specification) ------- *)
\* markOffline applied to every worker whose last heartbeat is older than
\* the timeout at time t
SweepAt(tbl, t) ==
  [i \in 1..Len(tbl) |->
     IF tbl[i].present /\ t - tbl[i].lastHb > HeartbeatTimeout
       THEN [tbl[i] EXCEPT !.status = "offline"]
       ELSE tbl[i]]

\* the timer of the sweep fires: SweepInterval after the previous run
Sweep ==
  /\ now' = now + SweepInterval
  /\ workers' = SweepAt(workers, now')
  /\ UNCHANGED <<balancerVars, reqs, sel, picks, started, historyVars>>

\* the render requests forwarded to worker id and not yet answered
InFlight(id) ==
  Cardinality({r \in Requests :
                 reqs[r].pc = "forwarding" /\ reqs[r].worker = id})

(* ---------------- render route ---------------- *)
\* a handler whose connection count + 1 is not written before the next
\* request's selection runs
DispatchStart_IncrementDeferred(r, valid) ==
  /\ reqs[r].pc # "forwarding"
  /\ started' = started + 1
  /\ IF ~valid
       THEN /\ reqs' = [reqs EXCEPT ![r] = [IdleRequest EXCEPT
                          !.pc = "responded", !.resp = "400"]]
            /\ UNCHANGED <<workers, balancerVars, sel, historyVars>>
       ELSE LET s == selectWorker("render", workers, circuitBreaker,
                                  roundRobinIndex, currentWeights, strategy,
                                  now, <<>>, {})
            IN /\ circuitBreaker' = s.cb
               /\ roundRobinIndex' = s.rr
               /\ currentWeights' = s.cw
               /\ sel' = [serviceType |-> "render", outcome |-> s.outcome,
                          worker |-> s.worker, resets |-> s.resets]
               /\ failsSinceSuccess' = ClearedBy(failsSinceSuccess, s.expired)
               /\ failsSinceCleared' =
                    ClearedBy(failsSinceCleared,
                              s.expired \cup SeqRange(s.resets))
               /\ UNCHANGED <<strategy, lastFailAt, forgiven>>
               /\ IF s.outcome = "worker"
                    THEN /\ workers' = workers
                         /\ reqs' = [reqs EXCEPT ![r] =
                              [pc |-> "forwarding", worker |-> s.worker.id,
                               selects |-> 1, forwards |-> 1, incs |-> 1,
                               decs |-> 0, billed |-> FALSE, resp |-> "none",
                               startedAt |-> now]]
                    ELSE /\ workers' = workers
                         /\ reqs' = [reqs EXCEPT ![r] = [IdleRequest EXCEPT
                              !.pc = "responded", !.selects = 1,
                              !.resp = IF s.outcome = "null" THEN "503"
                                       ELSE "500 RENDER_ERROR"]]
  /\ UNCHANGED <<now, picks>>

\* router.post('/') up to the await of the forward call: validation,
\* selectWorker('render'), connection count + 1.
DispatchStart(r, valid) ==
  /\ reqs[r].pc # "forwarding"
  /\ started' = started + 1
  /\ IF ~valid
       THEN /\ reqs' = [reqs EXCEPT ![r] = [IdleRequest EXCEPT
                          !.pc = "responded", !.resp = "400"]]
            /\ UNCHANGED <<workers, balancerVars, sel, historyVars>>
       ELSE LET s == selectWorker("render", workers, circuitBreaker,
                                  roundRobinIndex, currentWeights, strategy,
                                  now, <<>>, {})
            IN /\ circuitBreaker' = s.cb
               /\ roundRobinIndex' = s.rr
               /\ currentWeights' = s.cw
               /\ sel' = [serviceType |-> "render", outcome |-> s.outcome,
                          worker |-> s.worker, resets |-> s.resets]
               /\ failsSinceSuccess' = ClearedBy(failsSinceSuccess, s.expired)
               /\ failsSinceCleared' =
                    ClearedBy(failsSinceCleared,
                              s.expired \cup SeqRange(s.resets))
               /\ UNCHANGED <<strategy, lastFailAt, forgiven>>
               /\ IF s.outcome = "worker"
                    THEN /\ workers' =
                              updateWorkerConnections(workers, s.worker.id, 1)
                         /\ reqs' = [reqs EXCEPT ![r] =
                              [pc |-> "forwarding", worker |-> s.worker.id,
                               selects |-> 1, forwards |-> 1, incs |-> 1,
                               decs |-> 0, billed |-> FALSE, resp |-> "none",
                               startedAt |-> now]]
                    ELSE /\ workers' = workers
                         /\ reqs' = [reqs EXCEPT ![r] = [IdleRequest EXCEPT
                              !.pc = "responded", !.selects = 1,
                              !.resp = IF s.outcome = "null" THEN "503"
                                       ELSE "500 RENDER_ERROR"]]
  /\ UNCHANGED <<now, picks>>

\* the forward call resolved: recordSuccess, updateWorkerStats,
\* connection count - 1, billing, response.  statsThrows: updateWorkerStats
\* raises; lateThrows: the billing (getApiConfig, updateUserStats) raises.
ForwardSuccess(r, statsThrows, lateThrows) ==
  /\ reqs[r].pc = "forwarding"
  /\ LET id == reqs[r].worker
     IN /\ circuitBreaker' = recordSuccess(circuitBreaker, id)
        /\ failsSinceSuccess' = ClearedBy(failsSinceSuccess, {id})
        /\ failsSinceCleared' = ClearedBy(failsSinceCleared, {id})
        /\ forgiven' = [forgiven EXCEPT ![id] = CountOf(circuitBreaker, id)]
        /\ IF statsThrows
             THEN /\ workers' = workers
                  /\ reqs' = [reqs EXCEPT ![r].pc = "responded",
                                          ![r].resp = "500 RENDER_ERROR"]
             ELSE /\ workers' =
                       updateWorkerConnections(
                         updateWorkerStats(workers, id,
                                           now - reqs[r].startedAt, TRUE),
                         id, -1)
                  /\ reqs' = [reqs EXCEPT
                       ![r].pc = "responded",
                       ![r].decs = @ + 1,
                       ![r].billed = ~lateThrows,
                       ![r].resp = IF lateThrows THEN "500 RENDER_ERROR"
                                   ELSE "200"]
  /\ UNCHANGED <<now, strategy, roundRobinIndex, currentWeights, sel, picks,
                 started, lastFailAt>>

\* a failure path that, as forwardRequest of LOAD_BALANCER.md, records the
\* failure, selects a worker again and forwards the request to it
ForwardFailure_Retry(r) ==
  /\ reqs[r].pc = "forwarding"
  /\ LET id == reqs[r].worker
         s == selectWorker("render", workers,
                           recordFailure(circuitBreaker, id, now),
                           roundRobinIndex, currentWeights, strategy,
                           now, <<>>, {})
     IN /\ circuitBreaker' = s.cb
        /\ roundRobinIndex' = s.rr
        /\ currentWeights' = s.cw
        /\ sel' = [serviceType |-> "render", outcome |-> s.outcome,
                   worker |-> s.worker, resets |-> s.resets]
        /\ failsSinceSuccess' =
             ClearedBy([failsSinceSuccess EXCEPT ![id] = @ + 1], s.expired)
        /\ failsSinceCleared' =
             ClearedBy([failsSinceCleared EXCEPT ![id] = @ + 1],
                       s.expired \cup SeqRange(s.resets))
        /\ lastFailAt' = [lastFailAt EXCEPT ![id] = now]
        /\ forgiven' = forgiven
        /\ IF s.outcome = "worker" /\ reqs[r].forwards < Retries
             THEN /\ workers' = updateWorkerConnections(
                                  updateWorkerConnections(workers, id, -1),
                                  s.worker.id, 1)
                  /\ reqs' = [reqs EXCEPT ![r].worker = s.worker.id,
                                          ![r].selects = @ + 1,
                                          ![r].forwards = @ + 1]
             ELSE /\ workers' = updateWorkerConnections(workers, id, -1)
                  /\ reqs' = [reqs EXCEPT ![r].pc = "responded",
                                          ![r].selects = @ + 1,
                                          ![r].decs = @ + 1,
                                          ![r].resp = "500 WORKER_ERROR"]
  /\ UNCHANGED <<now, strategy, picks, started>>

\* a failure path that marks the worker offline once its count reaches the
\* threshold
ForwardFailure_OfflineWhenOpen(r) ==
  /\ reqs[r].pc = "forwarding"
  /\ LET id == reqs[r].worker
         cb == recordFailure(circuitBreaker, id, now)
         tbl == updateWorkerConnections(workers, id, -1)
     IN /\ circuitBreaker' = cb
        /\ failsSinceSuccess' = [failsSinceSuccess EXCEPT ![id] = @ + 1]
        /\ failsSinceCleared' = [failsSinceCleared EXCEPT ![id] = @ + 1]
        /\ lastFailAt' = [lastFailAt EXCEPT ![id] = now]
        /\ forgiven' = forgiven
        /\ workers' = IF CountOf(cb, id) >= Threshold
                        THEN [tbl EXCEPT ![id].status = "offline"]
                        ELSE tbl
        /\ reqs' = [reqs EXCEPT ![r].pc = "responded",
                                ![r].decs = @ + 1,
                                ![r].resp = "500 WORKER_ERROR"]
  /\ UNCHANGED <<now, strategy, roundRobinIndex, currentWeights, sel, picks,
                 started>>

\* the forward call rejected (timeout, refused, non-2xx): recordFailure,
\* connection count - 1, 500 WORKER_ERROR.
ForwardFailure(r) ==
  /\ reqs[r].pc = "forwarding"
  /\ LET id == reqs[r].worker
     IN /\ circuitBreaker' = recordFailure(circuitBreaker, id, now)
        /\ failsSinceSuccess' = [failsSinceSuccess EXCEPT ![id] = @ + 1]
        /\ failsSinceCleared' = [failsSinceCleared EXCEPT ![id] = @ + 1]
        /\ lastFailAt' = [lastFailAt EXCEPT ![id] = now]
        /\ forgiven' = forgiven
        /\ workers' = updateWorkerConnections(workers, id, -1)
        /\ reqs' = [reqs EXCEPT ![r].pc = "responded",
                                ![r].decs = @ + 1,
                                ![r].resp = "500 WORKER_ERROR"]
  /\ UNCHANGED <<now, strategy, roundRobinIndex, currentWeights, sel, picks,
                 started>>

(* ---------------- direct use of the LoadBalancer class ---------------- *)
setStrategy(s) ==
  /\ s # strategy
  /\ strategy' = s
  /\ UNCHANGED <<now, workers, roundRobinIndex, currentWeights,
                 circuitBreaker, reqs, sel, picks, started, historyVars>>

\* one recordFailure(workerId) call made by a caller of the class
RecordFailure(id) ==
  /\ IsPresent(id)
  /\ circuitBreaker' = recordFailure(circuitBreaker, id, now)
  /\ failsSinceSuccess' = [failsSinceSuccess EXCEPT ![id] = @ + 1]
  /\ failsSinceCleared' = [failsSinceCleared EXCEPT ![id] = @ + 1]
  /\ lastFailAt' = [lastFailAt EXCEPT ![id] = now]
  /\ UNCHANGED <<now, workers, strategy, roundRobinIndex, currentWeights,
                 reqs, sel, picks, started, forgiven>>

\* one selectWorker(serviceType) call whose result is appended to picks
Select(serviceType) ==
  /\ LET s == selectWorker(serviceType, workers, circuitBreaker,
                           roundRobinIndex, currentWeights, strategy,
                           now, <<>>, {})
     IN /\ circuitBreaker' = s.cb
        /\ roundRobinIndex' = s.rr
        /\ currentWeights' = s.cw
        /\ sel' = [serviceType |-> serviceType, outcome |-> s.outcome,
                   worker |-> s.worker, resets |-> s.resets]
        /\ picks' = Append(picks, [id |-> s.worker.id, strategy |-> strategy])
        /\ failsSinceSuccess' = ClearedBy(failsSinceSuccess, s.expired)
        /\ failsSinceCleared' =
             ClearedBy(failsSinceCleared, s.expired \cup SeqRange(s.resets))
  /\ UNCHANGED <<now, workers, strategy, reqs, started, lastFailAt, forgiven>>

(* ---------------- specifications ---------------- *)
\* the gateway: worker management routes and concurrent render requests
Next ==
  \/ \E t \in RegisterTypes, w \in {0, 2} :
       Len(workers) < MaxWorkers /\ Register(t, w)
  \/ \E id \in WorkerIds, st \in {"", "offline"} : Heartbeat(id, st, -1)
  \/ \E id \in WorkerIds : MarkOffline(id)
  \/ \E id \in WorkerIds : RemoveWorker(id)
  \/ \E r \in Requests, valid \in BOOLEAN :
       started < MaxDispatch /\ DispatchStart(r, valid)
  \/ \E r \in Requests, st \in BOOLEAN, lt \in BOOLEAN : ForwardSuccess(r, st, lt)
  \/ \E r \in Requests : ForwardFailure(r)

Spec == Init /\ [][Next]_vars

\* the circuit breaker under a sequence of render requests: workers register
\* and are removed at any time, time passes between requests, every request
\* succeeds or fails
NextBreaker ==
  \/ /\ now < MaxTicks * TickMs
     /\ reqs[1].pc # "forwarding"
     /\ Tick
  \/ Len(workers) < MaxWorkers /\ Register("render", 0)
  \/ \E id \in WorkerIds : RemoveWorker(id)
  \/ started < MaxFailures /\ DispatchStart(1, TRUE)
  \/ ForwardSuccess(1, FALSE, FALSE)
  \/ ForwardFailure(1)

SpecBreaker == Init /\ [][NextBreaker]_vars

\* the strategies on a fixed candidate list: workers register, then
\* selectWorker('render') is called repeatedly
NextBalancer ==
  \/ \E w \in 1..MaxWeight :
       /\ picks = <<>>
       /\ Len(workers) < MaxCandidates
       /\ Register("render", w)
  \/ \E s \in StrategyNames : picks = <<>> /\ setStrategy(s)
  \/ Len(picks) < MaxPicks /\ Select("render")

SpecBalancer == Init /\ [][NextBalancer]_vars

\* the strategies under load: render requests are in flight and complete
\* after some time, so that connection counts and average response times
\* differ between the candidates; the strategy is switched at any time
NextLoad ==
  \/ Len(workers) < MaxCandidates /\ Register("render", 0)
  \/ \E s \in {"least-connections", "response-time"} : setStrategy(s)
  \/ now < MaxSteps * StepMs /\ Advance(StepMs)
  \/ \E r \in Requests : started < MaxLoad /\ DispatchStart(r, TRUE)
  \/ \E r \in Requests : ForwardSuccess(r, FALSE, FALSE)

SpecLoad == Init /\ [][NextLoad]_vars

\* heartbeats and the liveness sweep: workers register and send heartbeats
\* at any time or stop sending them, the sweep runs every SweepInterval,
\* render requests are served in between
NextSweep ==
  \/ Len(workers) < MaxWorkers /\ Register("render", 0)
  \/ \E id \in WorkerIds : Heartbeat(id, "", -1)
  \/ now < MaxSweeps * SweepInterval /\ Sweep
  \/ started < MaxSweepDispatch /\ DispatchStart(1, TRUE)
  \/ ForwardSuccess(1, FALSE, FALSE)

SpecSweep == Init /\ [][NextSweep]_vars

\* registrations with any integer weight in the payload, 0 standing for a
\* payload without weight
WeightInputs == (0 - MaxWeight)..MaxWeight

NextRegister ==
  \E t \in RegisterTypes, w \in WeightInputs :
    Len(workers) < MaxCandidates /\ Register(t, w)

SpecRegister == Init /\ [][NextRegister]_vars

\* the writers of the status: a worker registers, sends heartbeats with or
\* without a status, is marked offline by the administrator or by the sweep,
\* while render requests to it succeed or fail
NextStatus ==
  \/ Len(workers) < MaxStatusWorkers /\ Register("render", 0)
  \/ \E id \in WorkerIds, st \in {"", "offline"} : Heartbeat(id, st, -1)
  \/ \E id \in WorkerIds : MarkOffline(id)
  \/ now < MaxStatusSweeps * SweepInterval /\ reqs[1].pc # "forwarding" /\ Sweep
  \/ started < MaxFailures /\ DispatchStart(1, TRUE)
  \/ ForwardSuccess(1, FALSE, FALSE)
  \/ ForwardFailure(1)

SpecStatus == Init /\ [][NextStatus]_vars

\* the LoadBalancer class serving several service types: its callers
\* register workers of each type, report failures and select, as time passes
NextClass ==
  \/ \E t \in RegisterTypes :
       Len(workers) < MaxWorkers /\ Register(t, 0)
  \/ now < MaxTicks * TickMs /\ Tick
  \/ \E id \in WorkerIds :
       CountOf(circuitBreaker, id) < Threshold /\ RecordFailure(id)
  \/ \E t \in RegisterTypes : Len(picks) < MaxClassPicks /\ Select(t)

SpecClass == Init /\ [][NextClass]_vars

\* heartbeats of worker-server.js between concurrent render requests: the
\* worker reports as currentConnections how many of the requests forwarded
\* to it it is handling at that moment
NextHeartbeat ==
  \/ Len(workers) < MaxWorkers /\ Register("render", 0)
  \/ \E id \in WorkerIds, c \in 0..NumRequests :
       c <= InFlight(id) /\ Heartbeat(id, "", c)
  \/ \E r \in Requests : started < MaxDispatch /\ DispatchStart(r, TRUE)
  \/ \E r \in Requests : ForwardSuccess(r, FALSE, FALSE)
  \/ \E r \in Requests : ForwardFailure(r)

SpecHeartbeat == Init /\ [][NextHeartbeat]_vars

\* the accumulators of weighted round robin while the candidate set changes:
\* workers of two types and of weight 1 or 2 register and are removed,
\* failures open their circuits, selections reset them
NextAccumulators ==
  \/ \E t \in RegisterTypes, w \in {0, 2} :
       Len(workers) < MaxWorkers /\ Register(t, w)
  \/ \E id \in WorkerIds : RemoveWorker(id)
  \/ \E id \in WorkerIds :
       CountOf(circuitBreaker, id) < Threshold /\ RecordFailure(id)
  \/ \E t \in RegisterTypes : Len(picks) < MaxAccPicks /\ Select(t)

SpecAccumulators == Init /\ [][NextAccumulators]_vars

\* concurrent render requests under least-connections: the workers register
\* and the strategy is set before the first request, no heartbeat carries a
\* connection count
NextConcurrent ==
  \/ started = 0 /\ Len(workers) < MaxCandidates /\ Register("render", 0)
  \/ started = 0 /\ setStrategy("least-connections")
  \/ \E r \in Requests : started < MaxLoad /\ DispatchStart(r, TRUE)
  \/ \E r \in Requests : ForwardSuccess(r, FALSE, FALSE)
  \/ \E r \in Requests : ForwardFailure(r)

SpecConcurrent == Init /\ [][NextConcurrent]_vars

\* the forward call of request r settles: axios resolves, rejects, or its
\* 30 s timeout fires
Settles(r) ==
  \/ \E st \in BOOLEAN : ForwardSuccess(r, st, FALSE)
  \/ ForwardFailure(r)

\* concurrent render requests whose forward calls always settle
NextLive ==
  \/ Len(workers) < MaxWorkers /\ Register("render", 0)
  \/ \E r \in Requests : started < MaxDispatch /\ DispatchStart(r, TRUE)
  \/ \E r \in Requests : Settles(r)

SpecLive ==
  /\ Init
  /\ [][NextLive]_vars
  /\ \A r \in Requests : WF_vars(Settles(r))

(* ======================= properties ======================= *)
SelectStep == \E r \in Requests : DispatchStart(r, TRUE)
RenderWorkers == getWorkersByService(workers, "render")
WithinWindow(id) == lastFailAt[id] >= 0 /\ now - lastFailAt[id] < Timeout
WindowElapsed(id) == lastFailAt[id] >= 0 /\ now - lastFailAt[id] >= Timeout
IsOpenNow(id) == isCircuitOpen(circuitBreaker, id, now).open

RECURSIVE SumConns(_, _)
SumConns(tbl, i) ==
  IF i > Len(tbl) THEN 0
  ELSE (IF tbl[i].present THEN tbl[i].conns ELSE 0) + SumConns(tbl, i + 1)

C2_ConnectionsBalanced ==
  /\ \A i \in 1..Len(workers) : workers[i].conns >= 0
  /\ (\A r \in Requests : reqs[r].pc # "forwarding") => SumConns(workers, 1) = 0

\* C3: a dispatch that incremented a worker's connection count has
\* decremented it exactly once when it responds, on every exit path.
C3_DecrementOnEveryExit ==
  \A r \in Requests :
    reqs[r].pc = "responded" => reqs[r].decs = reqs[r].incs

\* C4: one selectWorker call invokes resetOldestCircuit at most once (and
\* returns null when that one retry still finds no candidate, which is the
\* only case in which the code resets a second time).
C4_AtMostOneReset == Len(sel.resets) <= 1

\* C5 (as claimed): W being the only render worker and Threshold failed
\* dispatches to W in a row, the next selectWorker returns null within the
\* timeout window and W after it.
OnlyWorkerTripped(w) ==
  /\ Len(RenderWorkers) = 1
  /\ RenderWorkers[1].id = w
  /\ failsSinceCleared[w] >= Threshold

C5_NullWithinWindow ==
  [][\A w \in WorkerIds :
       (SelectStep /\ OnlyWorkerTripped(w)) =>
         /\ WithinWindow(w) => sel'.outcome = "null"
         /\ WindowElapsed(w) => (sel'.outcome = "worker" /\ sel'.worker.id = w)
    ]_vars

\* C5 (amended): in that situation the next selectWorker returns W in both
\* cases: within the window after resetOldestCircuit deleted W's entry,
\* after the window without any reset.
C5_WorkerReadmitted ==
  [][\A w \in WorkerIds :
       (SelectStep /\ OnlyWorkerTripped(w)) =>
         /\ sel'.outcome = "worker" /\ sel'.worker.id = w
         /\ WithinWindow(w) => w \in SeqRange(sel'.resets)
         /\ WindowElapsed(w) => sel'.resets = <<>>
    ]_vars

C5_Witness ==
  /\ Len(RenderWorkers) = 1
  /\ sel.outcome = "worker"
  /\ sel.worker.id = RenderWorkers[1].id
  /\ sel.worker.id \in SeqRange(sel.resets)
  /\ WithinWindow(sel.worker.id)
  /\ reqs[1].pc = "forwarding" /\ reqs[1].worker = sel.worker.id

\* C6: selectWorker terminates: it returns a worker or null, never ends in
\* a stack overflow, and resets at most as many entries as the breaker map
\* held when it was called.
C6_SelectTerminates ==
  [][SelectStep =>
       /\ sel'.outcome \in {"worker", "null"}
       /\ Len(sel'.resets) <= Len(circuitBreaker)
    ]_vars

C6_Witness ==
  /\ sel.outcome = "worker"
  /\ Len(sel.resets) >= 2
  /\ \E i \in 1..Len(workers) : ~workers[i].present /\ i \in SeqRange(sel.resets)

\* C7: a worker returned by selectWorker has, at the return, no breaker
\* entry with count >= Threshold and last failure within Timeout.
TrippedEntry(cb, id, t) ==
  \E i \in 1..Len(cb) :
    cb[i].id = id /\ cb[i].count >= Threshold /\ t - cb[i].timestamp < Timeout

C7_ReturnedWorkerNotOpen ==
  [][(SelectStep /\ sel'.outcome = "worker") =>
       ~TrippedEntry(circuitBreaker', sel'.worker.id, now')
    ]_vars

C7_Witness ==
  /\ sel.outcome = "worker"
  /\ sel.resets = <<>>
  /\ reqs[1].pc = "forwarding" /\ reqs[1].worker = sel.worker.id
  /\ \E i \in 1..Len(RenderWorkers) :
       /\ RenderWorkers[i].id # sel.worker.id
       /\ TrippedEntry(circuitBreaker, RenderWorkers[i].id, now)

\* C8: selectWorker never returns a worker whose status is offline.
C8_NeverOffline == sel.outcome = "worker" => sel.worker.status # "offline"

(* ---- strategies on a fixed candidate list ---- *)
AllPicksBy(strat) ==
  Len(picks) > 0 /\ \A i \in 1..Len(picks) : picks[i].strategy = strat
Occurrences(lo, hi, id) == Cardinality({i \in lo..hi : picks[i].id = id})
PickedIds(lo, hi) == [i \in 1..(hi - lo + 1) |-> picks[lo + i - 1].id]
Weights(ws) == [i \in 1..Len(ws) |-> ws[i].weight]
RECURSIVE SumWeights(_, _)
SumWeights(ws, i) ==
  IF i > Len(ws) THEN 0 ELSE ws[i].weight + SumWeights(ws, i + 1)

\* C9: under weighted round robin, accumulators starting at 0, every S
\* consecutive selections (S the sum of the weights) contain each candidate
\* exactly weight-many times; weights 3,2,1 give the interleaved order
\* A,B,A,C,B,A (never A,A,A,B,B,C) and weights 2,1 give R1,R2,R1.
C9_SmoothWeightedRoundRobin ==
  LET ws == RenderWorkers
      S == SumWeights(ws, 1)
  IN (AllPicksBy("weighted-round-robin") /\ Len(ws) > 0) =>
       /\ \A j \in 0..Len(picks) :
            (j + S <= Len(picks)) =>
              \A c \in 1..Len(ws) :
                Occurrences(j + 1, j + S, ws[c].id) = ws[c].weight
       /\ (Weights(ws) = <<3, 2, 1>> /\ Len(picks) >= 6) =>
            /\ PickedIds(1, 6) = <<1, 2, 1, 3, 2, 1>>
            /\ PickedIds(1, 6) # <<1, 1, 1, 2, 2, 3>>
       /\ (Weights(ws) = <<2, 1>> /\ Len(picks) >= 3) =>
            PickedIds(1, 3) = <<1, 2, 1>>

C9_Witness ==
  /\ AllPicksBy("weighted-round-robin")
  /\ Weights(RenderWorkers) = <<3, 2, 1>>
  /\ Len(picks) >= 6

\* C10: under round robin with n candidates and a fresh cursor the k-th
\* selection (k = 0, 1, ...) returns candidates[k mod n]; 9 calls on 3
\* workers return each worker 3 times.
C10_RoundRobinCyclic ==
  LET ws == RenderWorkers
  IN (AllPicksBy("round-robin") /\ Len(ws) > 0) =>
       /\ \A k \in 1..Len(picks) :
            picks[k].id = ws[((k - 1) % Len(ws)) + 1].id
       /\ (Len(ws) = 3 /\ Len(picks) = 9) =>
            \A c \in 1..3 : Occurrences(1, 9, ws[c].id) = 3

C10_Witness ==
  /\ AllPicksBy("round-robin")
  /\ Len(RenderWorkers) = 3
  /\ Len(picks) = 9
  /\ roundRobinIndex["render"] = 9

(* ---- strategies under load ---- *)
\* the candidates selectWorker hands to the strategy: the workers of the
\* list whose breaker entry, once the call is over, is not at the threshold
Eligible(ws, cb) ==
  {i \in 1..Len(ws) : ~TrippedEntry(cb, ws[i].id, now)}

\* C11: under least-connections the worker returned by selectWorker is a
\* candidate whose connection count is the minimum over the candidates, and
\* among the candidates with that minimum it is the earliest of the list.
C11_LeastConnectionsEarliestMinimum ==
  [][(SelectStep /\ strategy = "least-connections"
        /\ sel'.outcome = "worker") =>
       LET ws == RenderWorkers
           el == Eligible(ws, circuitBreaker')
       IN \E i \in el :
            /\ sel'.worker = ws[i]
            /\ \A j \in el :
                 /\ ws[j].conns >= ws[i].conns
                 /\ (ws[j].conns = ws[i].conns => j >= i)]_vars

\* a selection among three candidates where the first is busier and the
\* other two tie: the second is returned
C11_Witness ==
  /\ strategy = "least-connections"
  /\ sel.outcome = "worker"
  /\ Len(workers) = 3
  /\ sel.worker.id = 2 /\ sel.worker.conns = 0
  /\ workers[1].conns = 1 /\ workers[2].conns = 1 /\ workers[3].conns = 0
  /\ reqs[1].pc = "forwarding" /\ reqs[2].pc = "forwarding"

\* C12: under response-time the worker returned by selectWorker is, among
\* the candidates with recorded requests, one with the smallest average
\* response time; a candidate without recorded requests is returned only
\* when no candidate has any, and it is then the first of the list.
C12_FastestRecordedAverage ==
  [][(SelectStep /\ strategy = "response-time"
        /\ sel'.outcome = "worker") =>
       LET ws == RenderWorkers
           el == Eligible(ws, circuitBreaker')
           data == {i \in el : ws[i].total > 0}
       IN IF data = {}
            THEN \E i \in el : sel'.worker = ws[i] /\ \A j \in el : j >= i
          ELSE \E i \in data :
                 /\ sel'.worker = ws[i]
                 /\ \A j \in data : ws[j].avg >= ws[i].avg]_vars

C14_FailedAfterThreeAttempts ==
  \A r \in Requests :
    reqs[r].resp = "500 WORKER_ERROR" =>
      reqs[r].forwards = Retries /\ reqs[r].selects = Retries

(* ---- unknown strategy names ---- *)
\* C15: a selectWorker call made while the configured strategy is none of
\* the four known names returns the worker, and leaves the accumulators,
\* the cursor and the breaker map, that the same call returns and leaves
\* when the strategy is weighted-round-robin.
C15_UnknownStrategyIsWeightedRoundRobin ==
  [][(picks' # picks /\ strategy \notin KnownStrategies) =>
       LET s == selectWorker("render", workers, circuitBreaker,
                             roundRobinIndex, currentWeights,
                             "weighted-round-robin", now, <<>>, {})
       IN /\ sel'.outcome = s.outcome
          /\ sel'.worker = s.worker
          /\ currentWeights' = s.cw
          /\ roundRobinIndex' = s.rr
          /\ circuitBreaker' = s.cb]_vars

\* under the unknown name "fastest" three workers of weights 1, 2, 3 were
\* picked, the last pick being the second worker
C15_Witness ==
  /\ strategy = "fastest"
  /\ Len(workers) = 3
  /\ Weights(workers) = <<1, 2, 3>>
  /\ Len(picks) >= 3
  /\ picks[Len(picks)].id = 2
  /\ \E id \in WorkerIds : currentWeights[id] # 0

(* ---- liveness sweep ---- *)
\* C16 (its second half): a worker that the sweep has marked offline, and
\* that has sent no heartbeat since, is not returned by selectWorker.
C16_SweptWorkerNotSelected ==
  [][(SelectStep /\ sel'.outcome = "worker") =>
       ~(/\ workers[sel'.worker.id].status = "offline"
         /\ now - workers[sel'.worker.id].lastHb > HeartbeatTimeout)]_vars

(* ---- completion of a dispatch ---- *)
\* C17: every request that incremented a worker's connection count is
\* eventually answered with that increment undone.
C17_EveryDispatchReleases ==
  \A r \in Requests :
    (reqs[r].pc = "forwarding") ~>
      (reqs[r].pc = "responded" /\ reqs[r].decs = reqs[r].incs)

(* ---- no worker registered ---- *)
\* C18: a request for which selectWorker returns null is answered 503 and
\* changes nothing: no connection count, no request counter, no breaker
\* entry, no accumulator or cursor, no billing, no other request.
C18_NullChangesNothing ==
  [][\A r \in Requests :
       (DispatchStart(r, TRUE) /\ sel'.outcome = "null") =>
         /\ reqs'[r].pc = "responded" /\ reqs'[r].resp = "503"
         /\ reqs'[r].incs = 0 /\ reqs'[r].forwards = 0
         /\ ~reqs'[r].billed
         /\ workers' = workers
         /\ circuitBreaker' = circuitBreaker
         /\ currentWeights' = currentWeights
         /\ roundRobinIndex' = roundRobinIndex
         /\ \A q \in Requests \ {r} : reqs'[q] = reqs[q]]_vars

\* a 503 answered while the breaker still held the entry of a worker that
\* had failed and was then removed
C18_Witness ==
  /\ sel.outcome = "null"
  /\ \E r \in Requests : reqs[r].resp = "503"
  /\ RenderWorkers = <<>>
  /\ Len(circuitBreaker) > 0
  /\ \E i \in 1..Len(workers) :
       workers[i].type = "render" /\ workers[i].total = 0

(* ---- bookkeeping of a failed forward ---- *)
\* C19: the step that handles a failed forward to worker W raises W's
\* breaker failure count by one, records the outcome in the registry
\* (total requests + 1, failed requests + 1) and lowers W's connection
\* count by one.
C19_FailureRecordedEverywhere ==
  [][\A r \in Requests :
       (ForwardFailure(r) /\ IsPresent(reqs[r].worker)) =>
         LET id == reqs[r].worker
         IN /\ CountOf(circuitBreaker', id) = CountOf(circuitBreaker, id) + 1
            /\ workers'[id].total = workers[id].total + 1
            /\ workers'[id].failed = workers[id].failed + 1
            /\ workers'[id].conns = workers[id].conns - 1]_vars

\* C20: a request whose forward succeeded and whose updateWorkerStats call
\* raised is answered 200 with the worker's response.
C20_StatsFailureNotSurfaced ==
  [][\A r \in Requests :
       ForwardSuccess(r, TRUE, FALSE) => reqs'[r].resp = "200"]_vars

(* ---- the worker re-admitted by resetOldestCircuit ---- *)
\* request 1 was dispatched to a worker whose entry the same selectWorker
\* call had deleted through resetOldestCircuit
ProbeOfReadmitted ==
  /\ reqs[1].pc = "forwarding"
  /\ sel.outcome = "worker"
  /\ sel.worker.id = reqs[1].worker
  /\ sel.worker.id \in SeqRange(sel.resets)

\* C21: when the first request dispatched to a worker re-admitted by
\* resetOldestCircuit fails, the worker's circuit is open right after that
\* failure.
C21_OneProbeOnly ==
  [][(ProbeOfReadmitted /\ ForwardFailure(1)) =>
       isCircuitOpen(circuitBreaker', reqs[1].worker, now).open]_vars

\* C21 as the code has it: after that failure the worker's entry counts one
\* failure and its circuit is closed.
C21_FreshRunAfterReset ==
  [][(ProbeOfReadmitted /\ ForwardFailure(1)) =>
       /\ CountOf(circuitBreaker', reqs[1].worker) = 1
       /\ ~isCircuitOpen(circuitBreaker', reqs[1].worker, now).open]_vars

\* the probe of a re-admitted worker has failed
C21_Witness ==
  /\ reqs[1].resp = "500 WORKER_ERROR"
  /\ sel.worker.id = reqs[1].worker
  /\ sel.worker.id \in SeqRange(sel.resets)
  /\ failsSinceSuccess[reqs[1].worker] = Threshold + 1
  /\ CountOf(circuitBreaker, reqs[1].worker) = 1

(* ---- expiry of a breaker entry ---- *)
\* the render workers whose entry is at least Timeout old when selectWorker
\* evaluates isCircuitOpen for them
StaleEntries ==
  {i \in 1..Len(RenderWorkers) :
     /\ HasEntry(circuitBreaker, RenderWorkers[i].id)
     /\ now - EntryOf(circuitBreaker, RenderWorkers[i].id).timestamp >= Timeout}

\* C22: after a selectWorker call that evaluated isCircuitOpen(W) at least
\* Timeout after W's last failure, W has no breaker entry, whatever the
\* entry's count was.
C22_StaleEntryDeleted ==
  [][SelectStep =>
       \A i \in StaleEntries :
         ~HasEntry(circuitBreaker', RenderWorkers[i].id)]_vars

\* C22 as the code has it: W is eligible (a worker is returned and no
\* entry is reset); its entry is deleted when its count had reached the
\* threshold and is left as it was when the count was below it.
C22_StaleEntryEligible ==
  [][SelectStep =>
       \A i \in StaleEntries :
         LET id == RenderWorkers[i].id
         IN /\ sel'.outcome = "worker" /\ sel'.resets = <<>>
            /\ ~TrippedEntry(circuitBreaker', id, now)
            /\ IF EntryOf(circuitBreaker, id).count >= Threshold
                 THEN ~HasEntry(circuitBreaker', id)
                 ELSE /\ HasEntry(circuitBreaker', id)
                      /\ EntryOf(circuitBreaker', id) =
                           EntryOf(circuitBreaker, id)]_vars

\* a worker was selected, at a time at least Timeout after its last failure,
\* and still has its entry of fewer than Threshold failures
C22_Witness ==
  /\ reqs[1].pc = "forwarding" /\ reqs[1].startedAt = now
  /\ sel.outcome = "worker" /\ sel.worker.id = reqs[1].worker
  /\ HasEntry(circuitBreaker, sel.worker.id)
  /\ EntryOf(circuitBreaker, sel.worker.id).count = 2
  /\ now - EntryOf(circuitBreaker, sel.worker.id).timestamp >= Timeout

(* ---- a success forgives every failure ---- *)
\* C23: the step that handles a successful forward to W leaves W without a
\* breaker entry, and a worker with fewer than Threshold failures since its
\* last success never has an open circuit.
C23_SuccessForgivesAll ==
  /\ [][\A r \in Requests :
         (\E st, lt \in BOOLEAN : ForwardSuccess(r, st, lt)) =>
           ~HasEntry(circuitBreaker', reqs[r].worker)]_vars
  /\ [](\A id \in WorkerIds :
          failsSinceSuccess[id] < Threshold =>
            ~TrippedEntry(circuitBreaker, id, now))

\* the only worker failed twice, succeeded, then failed Threshold - 1 times:
\* its circuit is closed
C23_Witness ==
  /\ Len(workers) = 1 /\ workers[1].present
  /\ workers[1].total = 1
  /\ forgiven[1] >= 2
  /\ reqs[1].resp = "500 WORKER_ERROR"
  /\ failsSinceSuccess[1] = Threshold - 1
  /\ CountOf(circuitBreaker, 1) = Threshold - 1
  /\ ~IsOpenNow(1)

(* ---- registration ---- *)
\* C24: every worker record created by registration has a weight >= 1.
C24_WeightAtLeastOne ==
  \A i \in 1..Len(workers) : workers[i].weight >= 1

(* ---- frame of the weighted-round-robin accumulators ---- *)
\* C25: a selectWorker call under weighted round robin leaves unchanged the
\* accumulator of every render worker that is offline or whose circuit is
\* open.
C25_ExcludedAccumulatorsUnchanged ==
  [][(SelectStep /\ strategy = "weighted-round-robin") =>
       \A i \in 1..Len(RenderWorkers) :
         LET w == RenderWorkers[i]
         IN (w.status = "offline"
               \/ TrippedEntry(circuitBreaker', w.id, now)) =>
              currentWeights'[w.id] = currentWeights[w.id]]_vars

(* ---- writers of the worker status ---- *)
\* C26: a step changes the status of a registered worker only when it is a
\* heartbeat, an administrative offline or the sweep (selections and
\* dispatch outcomes never do), and a heartbeat without a status field
\* leaves the worker online.
C26_StatusWriters ==
  /\ [][(\E i \in 1..Len(workers) :
           workers'[i].status # workers[i].status) =>
          \/ \E id \in WorkerIds, st \in {"", "offline"} : Heartbeat(id, st, -1)
          \/ \E id \in WorkerIds : MarkOffline(id)
          \/ Sweep]_vars
  /\ [][\A id \in WorkerIds :
         Heartbeat(id, "", -1) => workers'[id].status = "online"]_vars

\* a worker that the sweep had marked offline is online again after a
\* heartbeat, and stays online while its circuit is open
C26_Witness ==
  \E id \in WorkerIds :
    /\ IsPresent(id)
    /\ workers[id].status = "online"
    /\ workers[id].lastHb > HeartbeatTimeout
    /\ IsOpenNow(id)
    /\ failsSinceSuccess[id] >= Threshold

(* ---- resetOldestCircuit and the service types ---- *)
\* C27: every breaker entry that a selectWorker(S) call deletes through
\* resetOldestCircuit belongs to a worker of type S, and the call leaves the
\* entries of the workers of other types as they were.
C27_ResetWithinServiceType ==
  [][\A S \in RegisterTypes :
       Select(S) =>
         /\ \A k \in 1..Len(sel'.resets) :
              /\ sel'.resets[k] \in 1..Len(workers)
              /\ workers[sel'.resets[k]].type = S
         /\ \A id \in 1..Len(workers) :
              (workers[id].type # S /\ HasEntry(circuitBreaker, id)) =>
                /\ HasEntry(circuitBreaker', id)
                /\ EntryOf(circuitBreaker', id) =
                     EntryOf(circuitBreaker, id)]_vars

(* ---- heartbeats that carry currentConnections ---- *)
\* C28: the connection count that the registry holds for a worker equals
\* the number of requests forwarded to it and not yet answered.
C28_CountIsInFlight ==
  \A id \in 1..Len(workers) :
    workers[id].present => workers[id].conns = InFlight(id)

(* ---- sum of the accumulators ---- *)
\* sum of currentWeights over the workers i..Len(workers) of type t,
\* removed workers included
RECURSIVE SumAccumulators(_, _)
SumAccumulators(t, i) ==
  IF i > Len(workers) THEN 0
  ELSE (IF workers[i].type = t THEN currentWeights[i] ELSE 0)
         + SumAccumulators(t, i + 1)

\* C29: for each service type the weighted-round-robin accumulators of the
\* workers of that type sum to 0, in every state and so after every
\* selectWorker call.
C29_AccumulatorsSumToZero ==
  \A t \in ServiceTypes : SumAccumulators(t, 1) = 0

\* two selections returned different workers; a worker whose circuit is
\* open holds a negative accumulator, another a positive one
C29_Witness ==
  /\ Len(picks) = 2 /\ picks[1].id # picks[2].id
  /\ \E id \in 1..Len(workers) :
       /\ IsOpenNow(id) /\ currentWeights[id] < 0
       /\ \E other \in 1..Len(workers) :
            /\ workers[other].type = workers[id].type
            /\ workers[other].weight # workers[id].weight
            /\ currentWeights[other] > 0

(* ---- selection and increment of concurrent requests ---- *)
\* C30: under least-connections, with at least as many candidate workers
\* (circuit not open) as concurrent requests and all workers idle before the
\* requests, the requests in flight at the same time are at distinct workers.
C30_DistinctWorkers ==
  (/\ strategy = "least-connections"
   /\ Cardinality(Eligible(RenderWorkers, circuitBreaker)) >= NumRequests) =>
    \A r1, r2 \in Requests :
      (r1 # r2 /\ reqs[r1].pc = "forwarding" /\ reqs[r2].pc = "forwarding")
        => reqs[r1].worker # reqs[r2].worker

\* every request slot holds a request in flight, each at its own worker
C30_Witness ==
  /\ strategy = "least-connections"
  /\ Cardinality(Eligible(RenderWorkers, circuitBreaker)) >= NumRequests
  /\ \A r \in Requests :
       /\ reqs[r].pc = "forwarding"
       /\ workers[reqs[r].worker].conns = 1
  /\ \A r1, r2 \in Requests : r1 # r2 => reqs[r1].worker # reqs[r2].worker

====
